---------------------------- MODULE Spec2Model ----------------------------
(***************************************************************************)
(* A model of the vrf-server of solana-vrf: the log parser, the fulfilment *)
(* pipeline with its submission loop, the per-program subscription         *)
(* supervisors and the startup backfill.                                   *)
(*                                                                         *)
(* Text is a sequence of one-character strings, bytes are 0..255.          *)
(***************************************************************************)
EXTENDS Integers, Sequences, FiniteSets, TLC

(***************************************************************************)
(* Text helpers (str::strip_prefix, str::find, slices)                     *)
(***************************************************************************)
HasPrefix(s, p) == Len(s) >= Len(p) /\ SubSeq(s, 1, Len(p)) = p

DropFirst(s, n) == SubSeq(s, n + 1, Len(s))

Upper == {"A","B","C","D","E","F","G","H","I","J","K","L","M",
          "N","O","P","Q","R","S","T","U","V","W","X","Y","Z"}

Lower == {"a","b","c","d","e","f","g","h","i","j","k","l","m",
          "n","o","p","q","r","s","t","u","v","w","x","y","z"}

Digit == {"0","1","2","3","4","5","6","7","8","9"}

\* char::is_ascii_alphanumeric
is_ascii_alphanumeric(c) == c \in Upper \cup Lower \cup Digit

\* the closure of parse_log_line's find: a character outside the base64 set
NotBase64Char(c) == ~is_ascii_alphanumeric(c) /\ c # "+" /\ c # "/" /\ c # "="

PREFIX_LOG == <<"P","r","o","g","r","a","m"," ","l","o","g",":"," ">>

PREFIX_DATA == <<"P","r","o","g","r","a","m"," ","d","a","t","a",":"," ">>

PREFIX_PROGRAM == <<"P","r","o","g","r","a","m"," ">>

WORD_INVOKE == <<" ","i","n","v","o","k","e">>

WORD_SUCCES == <<" ","s","u","c","c","e","s">>

\* positions i at which the word w starts inside s
Occurrences(s, w) ==
    {i \in 1..Len(s) : i + Len(w) - 1 <= Len(s) /\ SubSeq(s, i, i + Len(w) - 1) = w}

Max(S) == CHOOSE x \in S : \A y \in S : y <= x

Min(S) == CHOOSE x \in S : \A y \in S : x <= y

\* the text holds a line feed, which '.' of a pattern does not match
HasLineFeed(s) == \E i \in 1..Len(s) : s[i] = "\n"

\* RE_INVOKE = ^Program (.*) invoke.*$ : where the greedy group ends, 0 for no
\* match; every character after "Program " is matched by a '.' or by a
\* literal other than a line feed, and '$' is the end of the text
InvokeAt(log) ==
    IF ~HasPrefix(log, PREFIX_PROGRAM) \/ HasLineFeed(log) THEN 0
    ELSE LET at == {i \in Occurrences(log, WORD_INVOKE) : i > Len(PREFIX_PROGRAM)}
         IN  IF at = {} THEN 0 ELSE Max(at)

\* RE_RETURN = ^Program (.*) success*$ : " succes", then only 's' up to the end
ReturnAt(log) ==
    IF ~HasPrefix(log, PREFIX_PROGRAM) \/ HasLineFeed(log) THEN 0
    ELSE LET at == {i \in Occurrences(log, WORD_SUCCES) :
                       /\ i > Len(PREFIX_PROGRAM)
                       /\ \A j \in (i + Len(WORD_SUCCES))..Len(log) : log[j] = "s"}
         IN  IF at = {} THEN 0 ELSE Max(at)

LogType(type, arg) == [type |-> type, arg |-> arg]

\* parse_log_line with the two patterns tried before the output prefixes
parse_log_line_RegexFirst(log) ==
    IF InvokeAt(log) # 0
    THEN [type |-> "Invoke",
          arg |-> SubSeq(log, Len(PREFIX_PROGRAM) + 1, InvokeAt(log) - 1)]
    ELSE IF ReturnAt(log) # 0
    THEN [type |-> "Return",
          arg |-> SubSeq(log, Len(PREFIX_PROGRAM) + 1, ReturnAt(log) - 1)]
    ELSE IF HasPrefix(log, PREFIX_LOG) \/ HasPrefix(log, PREFIX_DATA)
    THEN LET rest == IF HasPrefix(log, PREFIX_LOG)
                     THEN DropFirst(log, Len(PREFIX_LOG))
                     ELSE DropFirst(log, Len(PREFIX_DATA))
         IN  IF \A i \in 1..Len(rest) : ~NotBase64Char(rest[i])
             THEN [type |-> "Data", arg |-> rest]
             ELSE [type |-> "Trivia", arg |-> <<>>]
    ELSE IF HasPrefix(log, PREFIX_PROGRAM)
            /\ \E i \in 1..Len(DropFirst(log, Len(PREFIX_PROGRAM))) :
                   DropFirst(log, Len(PREFIX_PROGRAM))[i] = " "
    THEN LET rest == DropFirst(log, Len(PREFIX_PROGRAM))
             end_index == Min({i \in 1..Len(rest) : rest[i] = " "})
         IN  [type |-> "InProgram", arg |-> SubSeq(rest, 1, end_index - 1)]
    ELSE [type |-> "Trivia", arg |-> <<>>]

\* parse_log_line: the first matching rule decides
parse_log_line(log) ==
    IF HasPrefix(log, PREFIX_LOG) \/ HasPrefix(log, PREFIX_DATA)
    THEN LET rest == IF HasPrefix(log, PREFIX_LOG)
                     THEN DropFirst(log, Len(PREFIX_LOG))
                     ELSE DropFirst(log, Len(PREFIX_DATA))
         IN  IF \A i \in 1..Len(rest) : ~NotBase64Char(rest[i])
             THEN LogType("Data", rest)
             ELSE LogType("Trivia", <<>>)
    ELSE IF InvokeAt(log) # 0
    THEN LogType("Invoke", SubSeq(log, Len(PREFIX_PROGRAM) + 1, InvokeAt(log) - 1))
    ELSE IF ReturnAt(log) # 0
    THEN LogType("Return", SubSeq(log, Len(PREFIX_PROGRAM) + 1, ReturnAt(log) - 1))
    ELSE IF HasPrefix(log, PREFIX_PROGRAM)
            /\ \E i \in 1..Len(DropFirst(log, Len(PREFIX_PROGRAM))) :
                   DropFirst(log, Len(PREFIX_PROGRAM))[i] = " "
    THEN LET rest == DropFirst(log, Len(PREFIX_PROGRAM))
             end_index == Min({i \in 1..Len(rest) : rest[i] = " "})
         IN  LogType("InProgram", SubSeq(rest, 1, end_index - 1))
    ELSE LogType("Trivia", <<>>)

(***************************************************************************)
(* base64::engine::general_purpose::STANDARD.decode: canonical padding is  *)
(* required and the unused bits of the last symbol must be zero            *)
(***************************************************************************)
B64Alphabet ==
    <<"A","B","C","D","E","F","G","H","I","J","K","L","M","N","O","P",
      "Q","R","S","T","U","V","W","X","Y","Z","a","b","c","d","e","f",
      "g","h","i","j","k","l","m","n","o","p","q","r","s","t","u","v",
      "w","x","y","z","0","1","2","3","4","5","6","7","8","9","+","/">>

B64Val(c) == IF c = "=" THEN 0 ELSE (CHOOSE i \in 1..64 : B64Alphabet[i] = c) - 1

\* number of '=' characters closing the text
B64Pad(s) ==
    IF Len(s) >= 2 /\ s[Len(s)] = "=" /\ s[Len(s) - 1] = "=" THEN 2
    ELSE IF Len(s) >= 1 /\ s[Len(s)] = "=" THEN 1
    ELSE 0

B64Ok(s) ==
    /\ Len(s) % 4 = 0
    /\ \A i \in 1..(Len(s) - B64Pad(s)) :
           \E k \in 1..64 : B64Alphabet[k] = s[i]
    /\ B64Pad(s) = 1 => B64Val(s[Len(s) - 1]) % 4 = 0
    /\ B64Pad(s) = 2 => B64Val(s[Len(s) - 2]) % 16 = 0

\* the three bytes of the quantum starting at symbol 4q+1
B64Quantum(s, q) ==
    LET v1 == B64Val(s[4 * q + 1])
        v2 == B64Val(s[4 * q + 2])
        v3 == B64Val(s[4 * q + 3])
        v4 == B64Val(s[4 * q + 4])
    IN  << v1 * 4 + (v2 \div 16),
           (v2 % 16) * 16 + (v3 \div 4),
           (v3 % 4) * 64 + v4 >>

\* the decoded bytes of a text that B64Ok accepts
B64Bytes(s) ==
    [k \in 1..((Len(s) \div 4) * 3 - B64Pad(s)) |->
        B64Quantum(s, (k - 1) \div 3)[((k - 1) % 3) + 1]]

\* a decoder that answers Ok(empty) where the text is not canonical base64
base64_decode_Lenient(s) ==
    IF B64Ok(s) THEN [ok |-> TRUE, bytes |-> B64Bytes(s)]
    ELSE [ok |-> TRUE, bytes |-> <<>>]

\* Result<Vec<u8>, DecodeError>
base64_decode(s) ==
    IF B64Ok(s) THEN [ok |-> TRUE, bytes |-> B64Bytes(s)]
    ELSE [ok |-> FALSE, bytes |-> <<>>]

(***************************************************************************)
(* parse_logs.  A Pubkey is written as its text, which is how the tracked  *)
(* set is keyed; Option<T> is <<>> for None and <<x>> for Some(x).         *)
(***************************************************************************)
AnchorEvent(program_id, data) == [program_id |-> program_id, data |-> data]

ProgramIdMismatch(line, current, expect) ==
    [kind |-> "ProgramIdMismatch", line |-> line, current |-> current, expect |-> expect]

NoCurrentProgramId(line) ==
    [kind |-> "NoCurrentProgramId", line |-> line, current |-> <<>>, expect |-> <<>>]

Base64Decode(line) ==
    [kind |-> "Base64Decode", line |-> line, current |-> <<>>, expect |-> <<>>]

\* cpi_stack.first() in the place of cpi_stack.last()
First(s) == s[1]

Last(s) == s[Len(s)]

\* a pop that leaves the entry on the stack
PopKept(s) == s

Pop(s) == SubSeq(s, 1, Len(s) - 1)

\* ParseStep with the payload decoded before the tracked set is asked
ParseStepDecodeFirst(st, log, program_ids) ==
    LET t == parse_log_line(log)
        program_id == t.arg
    IN  CASE t.type = "Invoke" ->
                 [st EXCEPT !.cpi_stack = Append(@, program_id)]
          [] t.type = "Return" ->
                 IF st.cpi_stack = <<>> THEN st
                 ELSE IF Last(st.cpi_stack) # program_id
                 THEN [st EXCEPT !.cpi_stack = Pop(@),
                                 !.errors = Append(@,
                                     ProgramIdMismatch(log, <<Last(st.cpi_stack)>>, program_id))]
                 ELSE [st EXCEPT !.cpi_stack = Pop(@)]
          [] t.type = "InProgram" ->
                 IF st.cpi_stack = <<>>
                 THEN [st EXCEPT !.errors = Append(@,
                                     ProgramIdMismatch(log, <<>>, program_id))]
                 ELSE IF Last(st.cpi_stack) # program_id
                 THEN [st EXCEPT !.errors = Append(@,
                                     ProgramIdMismatch(log, <<Last(st.cpi_stack)>>, program_id))]
                 ELSE st
          [] t.type = "Data" ->
                 IF st.cpi_stack = <<>>
                 THEN [st EXCEPT !.errors = Append(@, NoCurrentProgramId(log))]
                 ELSE IF ~base64_decode(t.arg).ok
                 THEN [st EXCEPT !.errors = Append(@, Base64Decode(log))]
                 ELSE IF Last(st.cpi_stack) \in program_ids
                 THEN [st EXCEPT !.events = Append(@,
                           AnchorEvent(Last(st.cpi_stack), base64_decode(t.arg).bytes))]
                 ELSE st
          [] OTHER -> st

\* ParseStep with a Return line on an empty stack recorded as an error
ParseStepStrictReturn(st, log, program_ids) ==
    LET t == parse_log_line(log)
        program_id == t.arg
    IN  CASE t.type = "Invoke" ->
                 [st EXCEPT !.cpi_stack = Append(@, program_id)]
          [] t.type = "Return" ->
                 IF st.cpi_stack = <<>>
                 THEN [st EXCEPT !.errors = Append(@, NoCurrentProgramId(log))]
                 ELSE IF Last(st.cpi_stack) # program_id
                 THEN [st EXCEPT !.cpi_stack = Pop(@),
                                 !.errors = Append(@,
                                     ProgramIdMismatch(log, <<Last(st.cpi_stack)>>, program_id))]
                 ELSE [st EXCEPT !.cpi_stack = Pop(@)]
          [] t.type = "InProgram" ->
                 IF st.cpi_stack = <<>>
                 THEN [st EXCEPT !.errors = Append(@,
                                     ProgramIdMismatch(log, <<>>, program_id))]
                 ELSE IF Last(st.cpi_stack) # program_id
                 THEN [st EXCEPT !.errors = Append(@,
                                     ProgramIdMismatch(log, <<Last(st.cpi_stack)>>, program_id))]
                 ELSE st
          [] t.type = "Data" ->
                 IF st.cpi_stack = <<>>
                 THEN [st EXCEPT !.errors = Append(@, NoCurrentProgramId(log))]
                 ELSE IF Last(st.cpi_stack) \in program_ids
                 THEN IF base64_decode(t.arg).ok
                      THEN [st EXCEPT !.events = Append(@,
                                AnchorEvent(Last(st.cpi_stack), base64_decode(t.arg).bytes))]
                      ELSE [st EXCEPT !.errors = Append(@, Base64Decode(log))]
                 ELSE st
          [] OTHER -> st

\* the body of the for loop: one line read in the state st
ParseStep(st, log, program_ids) ==
    LET t == parse_log_line(log)
        program_id == t.arg
    IN  CASE t.type = "Invoke" ->
                 [st EXCEPT !.cpi_stack = Append(@, program_id)]
          [] t.type = "Return" ->
                 IF st.cpi_stack = <<>> THEN st
                 ELSE IF Last(st.cpi_stack) # program_id
                 THEN [st EXCEPT !.cpi_stack = Pop(@),
                                 !.errors = Append(@,
                                     ProgramIdMismatch(log, <<Last(st.cpi_stack)>>, program_id))]
                 ELSE [st EXCEPT !.cpi_stack = Pop(@)]
          [] t.type = "InProgram" ->
                 IF st.cpi_stack = <<>>
                 THEN [st EXCEPT !.errors = Append(@,
                                     ProgramIdMismatch(log, <<>>, program_id))]
                 ELSE IF Last(st.cpi_stack) # program_id
                 THEN [st EXCEPT !.errors = Append(@,
                                     ProgramIdMismatch(log, <<Last(st.cpi_stack)>>, program_id))]
                 ELSE st
          [] t.type = "Data" ->
                 IF st.cpi_stack = <<>>
                 THEN [st EXCEPT !.errors = Append(@, NoCurrentProgramId(log))]
                 ELSE IF Last(st.cpi_stack) \in program_ids
                 THEN IF base64_decode(t.arg).ok
                      THEN [st EXCEPT !.events = Append(@,
                                AnchorEvent(Last(st.cpi_stack), base64_decode(t.arg).bytes))]
                      ELSE [st EXCEPT !.errors = Append(@, Base64Decode(log))]
                 ELSE st
          [] OTHER -> st

RECURSIVE ParseFrom(_, _, _, _)
ParseFrom(st, logs, i, program_ids) ==
    IF i > Len(logs) THEN st
    ELSE ParseFrom(ParseStep(st, logs[i], program_ids), logs, i + 1, program_ids)

\* parse_logs(logs, program_ids): events, errors and the stack left at the end
parse_logs(logs, program_ids) ==
    ParseFrom([events |-> <<>>, errors |-> <<>>, cpi_stack |-> <<>>], logs, 1, program_ids)

(***************************************************************************)
(* Wire format (vrf-sdk)                                                   *)
(***************************************************************************)
RESULT_BYTE_LEN == 32

DISCRIMINATOR_LEN == 8

PUBKEY_LEN == 32

IX_DATA_CAP == 1024

ACCOUNTS_CAP == 32

\* std::mem::size_of::<VrfAccountData>() of the packed layout
VRF_ACCOUNT_DATA_SIZE == 3328

VRF_RESULT_DISCRIMINATOR ==
    <<169, 181, 96, 37, 231, 213, 250, 114, 103, 201, 179, 141, 92, 38, 30, 87,
      115, 210, 50, 29, 136, 193, 41, 211, 45, 205, 112, 191, 205, 195, 2, 105>>

\* VrfAccountData::DISCRIMINATOR
ACCOUNT_DISCRIMINATOR == <<101, 35, 62, 239, 103, 151, 6, 18>>

\* VrfRequestRandomness::discriminator(), set by #[event]:
\* the first eight bytes of sha256("event:VrfRequestRandomness")
EVENT_DISCRIMINATOR == <<165, 136, 58, 240, 241, 40, 12, 65>>

(***************************************************************************)
(* The configuration and the ledger the server runs against.  A program id *)
(* is written as the text the logs print for it.                           *)
(***************************************************************************)
P1 ==
    <<"P","1">>

P2 ==
    <<"P","2">>

LINE_P1_INVOKE ==
    <<"P","r","o","g","r","a","m"," ","P","1"," ","i","n","v","o","k",
      "e"," ","[","1","]">>

LINE_P1_SUCCESS ==
    <<"P","r","o","g","r","a","m"," ","P","1"," ","s","u","c","c","e",
      "s","s">>

LINE_P1_CONSUMED ==
    <<"P","r","o","g","r","a","m"," ","P","1"," ","c","o","n","s","u",
      "m","e","d"," ","4","6","4","5"," ","o","f"," ","2","0","0","0",
      "0","0"," ","c","o","m","p","u","t","e"," ","u","n","i","t","s">>

LINE_P1_FAILED ==
    <<"P","r","o","g","r","a","m"," ","P","1"," ","f","a","i","l","e",
      "d",":"," ","c","u","s","t","o","m"," ","p","r","o","g","r","a",
      "m"," ","e","r","r","o","r",":"," ","0","x","1">>

LINE_P2_INVOKE ==
    <<"P","r","o","g","r","a","m"," ","P","2"," ","i","n","v","o","k",
      "e"," ","[","1","]">>

LINE_P2_INVOKE2 ==
    <<"P","r","o","g","r","a","m"," ","P","2"," ","i","n","v","o","k",
      "e"," ","[","2","]">>

LINE_P2_SUCCESS ==
    <<"P","r","o","g","r","a","m"," ","P","2"," ","s","u","c","c","e",
      "s","s">>

LINE_LOG_SPIN ==
    <<"P","r","o","g","r","a","m"," ","l","o","g",":"," ","I","n","s",
      "t","r","u","c","t","i","o","n",":"," ","S","p","i","n">>

LINE_LOG_HI ==
    <<"P","r","o","g","r","a","m"," ","l","o","g",":"," ","h","i">>

LINE_DATA_SHORT ==
    <<"P","r","o","g","r","a","m"," ","d","a","t","a",":"," ","a","G",
      "k","=">>

LINE_DATA_REQ1 ==
    <<"P","r","o","g","r","a","m"," ","d","a","t","a",":"," ","p","Y",
      "g","6","8","P","E","o","D","E","E","B","A","Q","E","B","A","Q",
      "E","B","A","Q","E","B","A","Q","E","B","A","Q","E","B","A","Q",
      "E","B","A","Q","E","B","A","Q","E","B","A","Q","E","B","A","Q",
      "E","B","A","Q","=","=">>

LINE_DATA_REQ2 ==
    <<"P","r","o","g","r","a","m"," ","d","a","t","a",":"," ","p","Y",
      "g","6","8","P","E","o","D","E","E","C","A","g","I","C","A","g",
      "I","C","A","g","I","C","A","g","I","C","A","g","I","C","A","g",
      "I","C","A","g","I","C","A","g","I","C","A","g","I","C","A","g",
      "I","C","A","g","=","=">>

LINE_P2_FAILED ==
    <<"P","r","o","g","r","a","m"," ","P","2"," ","f","a","i","l","e",
      "d",":"," ","c","u","s","t","o","m"," ","p","r","o","g","r","a",
      "m"," ","e","r","r","o","r",":"," ","0","x","1">>

\* config.program_ids, in the order of the configuration
program_ids == <<P1, P2>>

Tracked == {program_ids[k] : k \in 1..Len(program_ids)}

\* the addresses of two randomness request records
VRF_1 == [k \in 1..PUBKEY_LEN |-> 1]

VRF_2 == [k \in 1..PUBKEY_LEN |-> 2]

Vrfs == {VRF_1, VRF_2}

\* a transaction of the ledger: its recorded error, the tracked programs it
\* mentions and its log messages
Tx(err, mentions, logs) == [err |-> err, mentions |-> mentions, logs |-> logs]

TX_REQUEST_P1 ==
    Tx(FALSE, {P1}, <<LINE_P1_INVOKE, LINE_LOG_SPIN, LINE_DATA_REQ1,
                      LINE_P1_CONSUMED, LINE_P1_SUCCESS>>)

TX_SHORT_EVENT ==
    Tx(FALSE, {P1}, <<LINE_P1_INVOKE, LINE_DATA_SHORT, LINE_P1_SUCCESS>>)

TX_FAILED_P2 ==
    Tx(TRUE, {P2}, <<LINE_P2_INVOKE, LINE_DATA_REQ2, LINE_P2_FAILED>>)

TX_NO_EVENT ==
    Tx(FALSE, {P1}, <<LINE_P1_INVOKE, LINE_LOG_SPIN, LINE_P1_SUCCESS>>)

TX_PARSE_ERROR ==
    Tx(FALSE, {P1}, <<LINE_P1_INVOKE, LINE_LOG_HI, LINE_DATA_REQ1, LINE_P1_SUCCESS>>)

TX_NESTED_P2 ==
    Tx(FALSE, {P1, P2}, <<LINE_P1_INVOKE, LINE_P2_INVOKE2, LINE_DATA_REQ2,
                          LINE_P2_SUCCESS, LINE_P1_SUCCESS>>)

\* every transaction of the model, oldest first
Catalog ==
    <<TX_REQUEST_P1, TX_SHORT_EVENT, TX_FAILED_P2, TX_NO_EVENT, TX_PARSE_ERROR,
      TX_NESTED_P2>>

TxIds == 1..Len(Catalog)

(***************************************************************************)
(* Request record accounts the node may return for get_account_data.  An   *)
(* account is its byte length, its first bytes (at most eight) and, for    *)
(* the rest, the fields of the packed layout; ix_data holds the first      *)
(* ix_data_len bytes of the buffer.                                        *)
(***************************************************************************)
CALLBACK_IX_DATA == <<11, 12, 13, 14, 15, 16, 17, 18>> \o VRF_RESULT_DISCRIMINATOR \o <<7>>

Account(len, head, ix_data, ix_data_len, accounts_len) ==
    [len |-> len, head |-> head, seeds |-> [k \in 1..32 |-> 9],
     callback |-> [program_id |-> P1, accounts_len |-> accounts_len,
                   ix_data |-> ix_data, ix_data_len |-> ix_data_len]]

ACCOUNT_GOOD ==
    Account(VRF_ACCOUNT_DATA_SIZE + DISCRIMINATOR_LEN, ACCOUNT_DISCRIMINATOR,
            CALLBACK_IX_DATA, Len(CALLBACK_IX_DATA), 1)

ACCOUNT_WRONG_TYPE ==
    Account(VRF_ACCOUNT_DATA_SIZE + DISCRIMINATOR_LEN, <<1, 2, 3, 4, 5, 6, 7, 8>>,
            CALLBACK_IX_DATA, Len(CALLBACK_IX_DATA), 1)

ACCOUNT_EMPTY == Account(0, <<>>, <<>>, 0, 0)

ACCOUNT_TRUNCATED == Account(100, ACCOUNT_DISCRIMINATOR, <<>>, 0, 0)

ACCOUNT_NO_SENTINEL ==
    Account(VRF_ACCOUNT_DATA_SIZE + DISCRIMINATOR_LEN, ACCOUNT_DISCRIMINATOR,
            <<11, 12, 13, 14, 15, 16, 17, 18>> \o [k \in 1..RESULT_BYTE_LEN |-> 0],
            DISCRIMINATOR_LEN + RESULT_BYTE_LEN, 1)

ACCOUNT_BAD_LEN ==
    Account(VRF_ACCOUNT_DATA_SIZE + DISCRIMINATOR_LEN, ACCOUNT_DISCRIMINATOR,
            CALLBACK_IX_DATA, 2000, 1)

\* Result<Vec<u8>, ClientError> of get_account_data
AccountResponses ==
    {[ok |-> FALSE, account |-> ACCOUNT_EMPTY]} \cup
    {[ok |-> TRUE, account |-> a] :
        a \in {ACCOUNT_GOOD, ACCOUNT_WRONG_TYPE, ACCOUNT_EMPTY, ACCOUNT_TRUNCATED,
               ACCOUNT_NO_SENTINEL, ACCOUNT_BAD_LEN}}

(***************************************************************************)
(* The fulfilment pipeline, process().  A run is a task record:            *)
(*   st       "idle", "spawned", the call the run waits for: "account"     *)
(*            (get_account_data), "blockhash" (get_latest_blockhash),      *)
(*            "sending" (send_and_confirm_transaction), "refreshing"       *)
(*            (get_new_latest_blockhash), "sleeping" (the backoff delay),  *)
(*            "done" (process returned, or the unit skipped) or "panicked" *)
(*   out      what the run returned                                        *)
(*   last     the outcome of the latest send_and_confirm_transaction       *)
(*   vrf      request_vrf.vrf, the request the run fulfils                  *)
(*   delay    the duration of the latest backoff sleep, 0 before any       *)
(*   hash     trans.message.recent_blockhash, 0 being the block reference  *)
(*            get_latest_blockhash answered                                *)
(*   signed   the block reference the signature of trans was made over     *)
(***************************************************************************)
IdleTask ==
    [st |-> "idle", out |-> "", last |-> "", vrf |-> <<>>,
     delay |-> 0, hash |-> 0, signed |-> 0]

SpawnedTask == [IdleTask EXCEPT !.st = "spawned"]

Done(task, out) ==
    [IdleTask EXCEPT !.st = "done", !.out = out, !.last = task.last, !.vrf = task.vrf]

Panicked(task) == [IdleTask EXCEPT !.st = "panicked", !.vrf = task.vrf]

\* the run has been spawned or called and has neither returned nor panicked
Pending(task) ==
    task.st \in {"spawned", "account", "blockhash", "sending", "refreshing", "sleeping"}

\* the last event that begins with the discriminator, in the place of the first
FirstRequestLast(events, i) ==
    LET found == {j \in i..Len(events) :
                     /\ Len(events[j].data) >= DISCRIMINATOR_LEN
                     /\ SubSeq(events[j].data, 1, DISCRIMINATOR_LEN) = EVENT_DISCRIMINATOR}
    IN  IF found = {} THEN [kind |-> "None", event |-> AnchorEvent(<<>>, <<>>)]
        ELSE [kind |-> "Some", event |-> events[Max(found)]]

\* events.into_iter().filter(|event| discriminator() == event.data[0..8]).next():
\* the slice panics on an event shorter than the discriminator
RECURSIVE FirstRequest(_, _)
FirstRequest(events, i) ==
    IF i > Len(events) THEN [kind |-> "None", event |-> AnchorEvent(<<>>, <<>>)]
    ELSE IF Len(events[i].data) < DISCRIMINATOR_LEN
    THEN [kind |-> "Panic", event |-> events[i]]
    ELSE IF SubSeq(events[i].data, 1, DISCRIMINATOR_LEN) = EVENT_DISCRIMINATOR
    THEN [kind |-> "Some", event |-> events[i]]
    ELSE FirstRequest(events, i + 1)

\* find() taking the last window that equals the sentinel
FindSentinelLast(ix_data) ==
    LET at == {o \in 0..(Len(ix_data) - RESULT_BYTE_LEN) :
                  SubSeq(ix_data, o + 1, o + RESULT_BYTE_LEN) = VRF_RESULT_DISCRIMINATOR}
    IN  IF at = {} THEN -1 ELSE Max(at)

\* ix_data.windows(RESULT_BYTE_LEN).enumerate().find(..): the first offset at
\* which the sentinel lies, -1 for None
FindSentinel(ix_data) ==
    LET at == {o \in 0..(Len(ix_data) - RESULT_BYTE_LEN) :
                  SubSeq(ix_data, o + 1, o + RESULT_BYTE_LEN) = VRF_RESULT_DISCRIMINATOR}
    IN  IF at = {} THEN -1 ELSE Min(at)

\* process() from the answer of get_account_data (line 80) to the call of
\* get_latest_blockhash (line 141): the account check, the proof and the
\* callback builder
Fulfil(task, account_response) ==
    LET a == account_response.account
        cb == a.callback
    IN  IF ~account_response.ok THEN Done(task, "Err(get_account_data)")
        ELSE IF a.len < DISCRIMINATOR_LEN THEN Panicked(task)
        ELSE IF a.head # ACCOUNT_DISCRIMINATOR THEN Done(task, "Err(invalid discriminator)")
        ELSE IF a.len < VRF_ACCOUNT_DATA_SIZE + DISCRIMINATOR_LEN THEN Panicked(task)
        ELSE IF cb.ix_data_len > IX_DATA_CAP THEN Panicked(task)
        ELSE IF FindSentinel(cb.ix_data) = -1
        THEN Done(task, "Err(cannot found VrfResult in ix_data)")
        ELSE IF cb.accounts_len > ACCOUNTS_CAP THEN Panicked(task)
        ELSE [task EXCEPT !.st = "blockhash"]

\* process() from the answer of get_latest_blockhash (line 141) to the first
\* send_and_confirm_transaction (line 153): the transaction is signed once
Sign(task, latest_hash_ok) ==
    IF ~latest_hash_ok THEN Done(task, "Err(get_latest_blockhash)")
    ELSE [task EXCEPT !.st = "sending", !.delay = 0, !.hash = 0, !.signed = 0]

\* process() without the test of the parse errors
process_IgnoringParseErrors(program_id, logs) ==
    LET parsed == parse_logs(logs, Tracked)
        found == FirstRequest(parsed.events, 1)
        data == found.event.data
    IN  IF found.kind = "Panic" THEN Panicked(IdleTask)
        ELSE IF found.kind = "None" THEN Done(IdleTask, "Ok(None)")
        ELSE IF found.event.program_id # program_id
        THEN Done(IdleTask, "Err(program_id not match)")
        ELSE IF Len(data) - DISCRIMINATOR_LEN < PUBKEY_LEN
        THEN Done(IdleTask, "Err(Deserialize RequestVrf Event)")
        ELSE [IdleTask EXCEPT !.st = "account",
                              !.vrf = SubSeq(data, DISCRIMINATOR_LEN + 1,
                                             DISCRIMINATOR_LEN + PUBKEY_LEN)]

\* process() from its call to the call of get_account_data (lines 50-80)
process(program_id, logs) ==
    LET parsed == parse_logs(logs, Tracked)
        found == FirstRequest(parsed.events, 1)
        data == found.event.data
    IN  IF parsed.errors # <<>> THEN Done(IdleTask, "Err(parse errors)")
        ELSE IF found.kind = "Panic" THEN Panicked(IdleTask)
        ELSE IF found.kind = "None" THEN Done(IdleTask, "Ok(None)")
        ELSE IF found.event.program_id # program_id
        THEN Done(IdleTask, "Err(program_id not match)")
        ELSE IF Len(data) - DISCRIMINATOR_LEN < PUBKEY_LEN
        THEN Done(IdleTask, "Err(Deserialize RequestVrf Event)")
        ELSE [IdleTask EXCEPT !.st = "account",
                              !.vrf = SubSeq(data, DISCRIMINATOR_LEN + 1,
                                             DISCRIMINATOR_LEN + PUBKEY_LEN)]

\* what send_and_confirm_transaction may answer
SendResponses ==
    {"Ok", "PreflightFailureWithLogs", "RpcResponseError", "Io",
     "BlockhashNotFound", "AlreadyProcessed", "InsufficientFunds"}

\* block references the node may answer
Hashes == 0..2

\* what get_new_latest_blockhash may answer: <<>> for Err, <<h>> for Ok(h)
NewBlockhashes == {<<>>} \cup {<<h>> : h \in Hashes}

\* durations of a backoff sleep, in ticks
Durations == 1..2

\* what backoff.next_backoff() may answer: <<>> for None, <<d>> for Some(d).
\* The answer is the library's: the loop takes whatever it says.
NextBackoffs == {<<>>} \cup {<<d>> : d \in Durations}

\* Attempt with a preflight simulation failure retried like a stale block
\* reference
AttemptRetryPreflight(task, response) ==
    LET sent == [task EXCEPT !.last = response]
    IN  CASE response = "Ok" -> Done(sent, "Ok(Some)")
          [] response = "RpcResponseError" -> Done(sent, "Err(client error)")
          [] response \in {"BlockhashNotFound", "AlreadyProcessed",
                           "PreflightFailureWithLogs"} ->
                 [sent EXCEPT !.st = "refreshing"]
          [] OTHER -> Done(sent, "Err(client error)")

\* the submission loop from the answer of send_and_confirm_transaction (line
\* 153) to the return of process() or to the call of get_new_latest_blockhash
\* (line 183)
Attempt(task, response) ==
    LET sent == [task EXCEPT !.last = response]
    IN  CASE response = "Ok" -> Done(sent, "Ok(Some)")
          [] response = "PreflightFailureWithLogs" ->
                 Done(sent, "Err(Simulation error logs)")
          [] response = "RpcResponseError" -> Done(sent, "Err(client error)")
          [] response \in {"BlockhashNotFound", "AlreadyProcessed"} ->
                 [sent EXCEPT !.st = "refreshing"]
          [] OTHER -> Done(sent, "Err(client error)")

\* the submission loop from the answer of get_new_latest_blockhash (line 185)
\* to the sleep (line 196) or to the return of process() (line 197), given
\* what backoff.next_backoff() answers (line 195): the block reference of
\* trans is overwritten on Ok (lines 187-189), and the loop sleeps for any
\* duration the backoff answers
Refresh(task, new_blockhash, next_backoff) ==
    LET refreshed == IF new_blockhash # <<>>
                     THEN [task EXCEPT !.hash = new_blockhash[1]] ELSE task
    IN  IF next_backoff # <<>>
        THEN [refreshed EXCEPT !.st = "sleeping", !.delay = next_backoff[1]]
        ELSE Done(refreshed, "Err(Send transaction failed!)")

\* the sleep ends and the loop submits trans again (lines 196, 151-153)
Wake(task) == [task EXCEPT !.st = "sending"]

(***************************************************************************)
(* The server: one subscription supervisor per tracked program, the units  *)
(* they spawn, the backfill task and the request records on the ledger.    *)
(*   sup[p]      logs_subscribe(p), by what it waits for: "connecting"     *)
(*               (PubsubClient::new), "subscribing" (logs_subscribe),      *)
(*               "streaming" (recv_stream.next()), "sleeping" (the delay   *)
(*               of the retry), or "dead" (the task panicked)              *)
(*   live[p, i]  the unit spawned for the notification of transaction i on *)
(*               the stream of p                                           *)
(*   bf          process_old_transaction: the program it is at, the        *)
(*               signatures left and the transaction in hand               *)
(*   bft         the pipeline run the backfill awaits                      *)
(*   callbacks   the callback transactions the node confirmed, by request  *)
(*   main        main, by where it is: "joining" (join_all) or "exited"    *)
(*               (it returned and the runtime dropped every task)          *)
(***************************************************************************)
VARIABLES sup, live, bf, bft, callbacks, main

(***************************************************************************)
(* One call of parse_logs and one call of parse_log_line, watched from     *)
(* inside:                                                                 *)
(*   tracked   the program_ids argument of parse_logs                      *)
(*   batch     the lines of the logs argument the for loop has read        *)
(*   parse     events, errors and cpi_stack of parse_logs                  *)
(*   input     the log argument of a call of parse_log_line                *)
(*   lt        what that call returned, <<>> before it returns             *)
(* and one call of a function of the pipeline or of the client library:    *)
(*   call      its name, its arguments and what it returned, <<>> while    *)
(*             none is watched                                             *)
(***************************************************************************)
VARIABLES tracked, batch, parse, input, lt, call

pvars == <<tracked, batch, parse, input, lt, call>>

vars == <<sup, live, bf, bft, callbacks, main, tracked, batch, parse, input, lt, call>>

\* the locals of parse_logs before the first line (lines 97-99)
NoLines == [events |-> <<>>, errors |-> <<>>, cpi_stack |-> <<>>]

\* no call of the parser is being watched
ParserIdle ==
    /\ tracked = Tracked
    /\ batch = <<>>
    /\ parse = NoLines
    /\ input = <<>>
    /\ lt = <<>>
    /\ call = <<>>

\* the transactions the ledger holds while the server runs
Ledger == {1, 2, 3}

LiveKeys == {k \in Tracked \X TxIds : k[1] \in Catalog[k[2]].mentions}

\* logs_subscribe(p) by what it waits for
Waiting(st) == [st |-> st]

Init ==
    /\ sup = [p \in Tracked |-> Waiting("connecting")]
    /\ live = [k \in LiveKeys |-> IdleTask]
    /\ bf = [pc |-> "list", pi |-> 1, sigs |-> <<>>, cur |-> 0]
    /\ bft = IdleTask
    /\ callbacks = [v \in Vrfs |-> 0]
    /\ main = "joining"
    /\ ParserIdle

\* process() up to get_account_data on every transaction of the catalog,
\* worked out once
Processed ==
    [k \in LiveKeys |-> process(k[1], Catalog[k[2]].logs)] @@ <<>>

\* the node's record of a confirmed callback
Confirm(task, response) ==
    IF response = "Ok" THEN [callbacks EXCEPT ![task.vrf] = @ + 1] ELSE callbacks

(***************************************************************************)
(* logs_subscribe (main.rs).  Every action runs the task from the answer   *)
(* of one await to the call of the next.                                   *)
(***************************************************************************)
\* main has returned (lines 56-57) and its runtime is dropped: the backfill and
\* the spawned units are cancelled where they wait
Exited == main = "exited"

\* join_all(handles).await answers (line 56) once every logs_subscribe task
\* has ended; main returns Ok(()) (line 57) and the runtime is dropped.  The
\* units and the backfill keep running until this step
Exit ==
    /\ main = "joining"
    /\ \A p \in Tracked : sup[p].st = "dead"
    /\ main' = "exited"
    /\ UNCHANGED <<sup, live, bf, bft, callbacks>>
    /\ UNCHANGED pvars

\* PubsubClient::new(..).await.unwrap() answers (line 72): the task asks for
\* the subscription, or panics and ends
Connect(p) ==
    /\ sup[p].st = "connecting"
    /\ \E ok \in BOOLEAN :
         sup' = [sup EXCEPT ![p] =
                   IF ok THEN Waiting("subscribing") ELSE Waiting("dead")]
    /\ UNCHANGED <<live, bf, bft, callbacks, main>>
    /\ UNCHANGED pvars

\* logs_subscribe(..).await answers (lines 74-88): the stream is read, or the
\* operation returns a Permanent error, the retry returns at once and the
\* loop starts the next one, which asks for a client
Subscribe(p) ==
    /\ sup[p].st = "subscribing"
    /\ \E ok \in BOOLEAN :
         sup' = [sup EXCEPT ![p] =
                   IF ok THEN Waiting("streaming") ELSE Waiting("connecting")]
    /\ UNCHANGED <<live, bf, bft, callbacks, main>>
    /\ UNCHANGED pvars

\* Receive with the unit awaited inside the loop instead of spawned
ReceiveAwaiting(p, i) ==
    /\ sup[p].st = "streaming"
    /\ i \in Ledger
    /\ <<p, i>> \in LiveKeys
    /\ live[<<p, i>>].st = "idle"
    /\ \A k \in LiveKeys : k[1] = p => ~Pending(live[k])
    /\ live' = [live EXCEPT ![<<p, i>>] = SpawnedTask]
    /\ UNCHANGED <<sup, bf, bft, callbacks, main>>
    /\ UNCHANGED pvars

\* recv_stream.next() yields the notification of transaction i: spawn its unit
Receive(p, i) ==
    /\ sup[p].st = "streaming"
    /\ i \in Ledger
    /\ <<p, i>> \in LiveKeys
    /\ live[<<p, i>>].st = "idle"
    /\ live' = [live EXCEPT ![<<p, i>>] = SpawnedTask]
    /\ UNCHANGED <<sup, bf, bft, callbacks, main>>
    /\ UNCHANGED pvars

\* the stream ends: Transient error; the retry sleeps when its backoff
\* answers a delay, or returns when it answers None, and then the outer loop
\* starts the next retry, which asks for a client at once
StreamEnd(p) ==
    /\ sup[p].st = "streaming"
    /\ \E some_backoff \in BOOLEAN :
         sup' = [sup EXCEPT ![p] =
                   IF some_backoff
                   THEN Waiting("sleeping")
                   ELSE Waiting("connecting")]
    /\ UNCHANGED <<live, bf, bft, callbacks, main>>
    /\ UNCHANGED pvars

\* the delay of the retry is over: the operation runs again and asks for a
\* client
Resume(p) ==
    /\ sup[p].st = "sleeping"
    /\ sup' = [sup EXCEPT ![p] = Waiting("connecting")]
    /\ UNCHANGED <<live, bf, bft, callbacks, main>>
    /\ UNCHANGED pvars

\* LiveRun without the test of the notification's err
LiveRunNoSkip(p, i) ==
    /\ ~Exited
    /\ live[<<p, i>>].st = "spawned"
    /\ live' = [live EXCEPT ![<<p, i>>] = Processed[<<p, i>>]]
    /\ UNCHANGED <<sup, bf, bft, callbacks, main>>
    /\ UNCHANGED pvars

\* the spawned unit from its first poll to get_account_data (main.rs, lines
\* 95-118; process.rs, lines 50-80)
LiveRun(p, i) ==
    /\ ~Exited
    /\ live[<<p, i>>].st = "spawned"
    /\ live' = [live EXCEPT ![<<p, i>>] =
                  IF Catalog[i].err THEN Done(IdleTask, "Skipped")
                  ELSE Processed[<<p, i>>]]
    /\ UNCHANGED <<sup, bf, bft, callbacks, main>>
    /\ UNCHANGED pvars

\* get_account_data answers the unit
LiveAccount(p, i) ==
    /\ ~Exited
    /\ live[<<p, i>>].st = "account"
    /\ \E account_response \in AccountResponses :
         live' = [live EXCEPT ![<<p, i>>] = Fulfil(@, account_response)]
    /\ UNCHANGED <<sup, bf, bft, callbacks, main>>
    /\ UNCHANGED pvars

\* get_latest_blockhash answers the unit
LiveBlockhash(p, i) ==
    /\ ~Exited
    /\ live[<<p, i>>].st = "blockhash"
    /\ \E latest_hash_ok \in BOOLEAN :
         live' = [live EXCEPT ![<<p, i>>] = Sign(@, latest_hash_ok)]
    /\ UNCHANGED <<sup, bf, bft, callbacks, main>>
    /\ UNCHANGED pvars

\* send_and_confirm_transaction answers the unit
LiveAttempt(p, i) ==
    /\ ~Exited
    /\ live[<<p, i>>].st = "sending"
    /\ \E response \in SendResponses :
         /\ live' = [live EXCEPT ![<<p, i>>] = Attempt(@, response)]
         /\ callbacks' = Confirm(live[<<p, i>>], response)
    /\ UNCHANGED <<sup, bf, bft, main>>
    /\ UNCHANGED pvars

\* get_new_latest_blockhash answers the unit
LiveRefresh(p, i) ==
    /\ ~Exited
    /\ live[<<p, i>>].st = "refreshing"
    /\ \E new_blockhash \in NewBlockhashes, next_backoff \in NextBackoffs :
         live' = [live EXCEPT ![<<p, i>>] = Refresh(@, new_blockhash, next_backoff)]
    /\ UNCHANGED <<sup, bf, bft, callbacks, main>>
    /\ UNCHANGED pvars

\* the backoff delay of the unit is over
LiveWake(p, i) ==
    /\ ~Exited
    /\ live[<<p, i>>].st = "sleeping"
    /\ live' = [live EXCEPT ![<<p, i>>] = Wake(@)]
    /\ UNCHANGED <<sup, bf, bft, callbacks, main>>
    /\ UNCHANGED pvars

(***************************************************************************)
(* process_old_transaction (process_old_trans.rs)                          *)
(***************************************************************************)
\* descending sequence of the members of S
RECURSIVE Descending(_)
Descending(S) == IF S = {} THEN <<>> ELSE <<Max(S)>> \o Descending(S \ {Max(S)})

\* get_signatures_for_address: the transactions up to height h that mention
\* p, newest first
Signatures(p, h) ==
    Descending({i \in Ledger : i <= h /\ p \in Catalog[i].mentions})

\* signatures.into_iter().filter(|sig| sig.err.is_none())
RECURSIVE WithoutErrors(_)
WithoutErrors(sigs) ==
    IF sigs = <<>> THEN <<>>
    ELSE IF Catalog[Head(sigs)].err THEN WithoutErrors(Tail(sigs))
    ELSE <<Head(sigs)>> \o WithoutErrors(Tail(sigs))

\* the outer for loop moves to the next program, or the task ends
NextProgram(b) ==
    IF b.pi < Len(program_ids)
    THEN [b EXCEPT !.pc = "list", !.pi = @ + 1, !.sigs = <<>>]
    ELSE [b EXCEPT !.pc = "done", !.sigs = <<>>]

\* the inner for loop moves to the next signature
NextSignature(b) ==
    IF b.sigs = <<>> THEN NextProgram(b) ELSE [b EXCEPT !.pc = "fetch"]

\* lines 23-50: list and filter the signatures of the program at hand
BackfillList ==
    /\ ~Exited
    /\ bf.pc = "list"
    /\ \E ok \in BOOLEAN, h \in 0..Len(Catalog) :
         LET signatures == WithoutErrors(Signatures(program_ids[bf.pi], h))
         IN  bf' = IF ~ok \/ signatures = <<>> THEN NextProgram(bf)
                   ELSE [bf EXCEPT !.pc = "fetch", !.sigs = signatures]
    /\ UNCHANGED <<sup, live, bft, callbacks, main>>
    /\ UNCHANGED pvars

\* the backfill after a step of the pipeline run it awaits (lines 75-83): it
\* goes on awaiting, moves to the next signature, or dies with the panic
AfterRun(b, run) ==
    CASE Pending(run) -> [b EXCEPT !.pc = "process"]
      [] run.st = "panicked" -> [b EXCEPT !.pc = "dead"]
      [] OTHER -> NextSignature([b EXCEPT !.cur = 0])

\* the run the backfill awaits after a step of it: none once process() has
\* returned, for its result is logged and dropped (lines 75-83)
Awaited(run) == IF run.st = "done" THEN IdleTask ELSE run

\* get_transaction answers (lines 55-76): the pipeline starts on the logs and
\* runs to get_account_data
BackfillFetch ==
    /\ ~Exited
    /\ bf.pc = "fetch"
    /\ \E fetched \in {"Err", "no logs", "Ok"} :
         LET i == Head(bf.sigs)
             b == [bf EXCEPT !.sigs = Tail(@), !.cur = i]
             run == Processed[<<program_ids[bf.pi], i>>]
         IN  IF fetched # "Ok" \/ Catalog[i].err
             THEN /\ bf' = NextSignature([b EXCEPT !.cur = 0])
                  /\ bft' = IdleTask
             ELSE /\ bft' = Awaited(run)
                  /\ bf' = AfterRun(b, run)
    /\ UNCHANGED <<sup, live, callbacks, main>>
    /\ UNCHANGED pvars

\* get_account_data answers the run of the backfill
BackfillAccount ==
    /\ ~Exited
    /\ bf.pc = "process"
    /\ bft.st = "account"
    /\ \E account_response \in AccountResponses :
         /\ bft' = Awaited(Fulfil(bft, account_response))
         /\ bf' = AfterRun(bf, Fulfil(bft, account_response))
    /\ UNCHANGED <<sup, live, callbacks, main>>
    /\ UNCHANGED pvars

\* get_latest_blockhash answers the run of the backfill
BackfillBlockhash ==
    /\ ~Exited
    /\ bf.pc = "process"
    /\ bft.st = "blockhash"
    /\ \E latest_hash_ok \in BOOLEAN :
         /\ bft' = Awaited(Sign(bft, latest_hash_ok))
         /\ bf' = AfterRun(bf, Sign(bft, latest_hash_ok))
    /\ UNCHANGED <<sup, live, callbacks, main>>
    /\ UNCHANGED pvars

\* send_and_confirm_transaction answers the run of the backfill
BackfillAttempt ==
    /\ ~Exited
    /\ bf.pc = "process"
    /\ bft.st = "sending"
    /\ \E response \in SendResponses :
         /\ bft' = Awaited(Attempt(bft, response))
         /\ bf' = AfterRun(bf, Attempt(bft, response))
         /\ callbacks' = Confirm(bft, response)
    /\ UNCHANGED <<sup, live, main>>
    /\ UNCHANGED pvars

\* get_new_latest_blockhash answers the run of the backfill
BackfillRefresh ==
    /\ ~Exited
    /\ bf.pc = "process"
    /\ bft.st = "refreshing"
    /\ \E new_blockhash \in NewBlockhashes, next_backoff \in NextBackoffs :
         /\ bft' = Awaited(Refresh(bft, new_blockhash, next_backoff))
         /\ bf' = AfterRun(bf, Refresh(bft, new_blockhash, next_backoff))
    /\ UNCHANGED <<sup, live, callbacks, main>>
    /\ UNCHANGED pvars

\* the backoff delay of the run of the backfill is over
BackfillWake ==
    /\ ~Exited
    /\ bf.pc = "process"
    /\ bft.st = "sleeping"
    /\ bft' = Wake(bft)
    /\ UNCHANGED <<sup, live, bf, callbacks, main>>
    /\ UNCHANGED pvars

Next ==
    \/ \E p \in Tracked : Connect(p)
    \/ \E p \in Tracked : Subscribe(p)
    \/ \E p \in Tracked, i \in TxIds : Receive(p, i)
    \/ \E p \in Tracked : StreamEnd(p)
    \/ \E p \in Tracked : Resume(p)
    \/ \E k \in LiveKeys : LiveRun(k[1], k[2])
    \/ \E k \in LiveKeys : LiveAccount(k[1], k[2])
    \/ \E k \in LiveKeys : LiveBlockhash(k[1], k[2])
    \/ \E k \in LiveKeys : LiveAttempt(k[1], k[2])
    \/ \E k \in LiveKeys : LiveRefresh(k[1], k[2])
    \/ \E k \in LiveKeys : LiveWake(k[1], k[2])
    \/ BackfillList
    \/ BackfillFetch
    \/ BackfillAccount
    \/ BackfillBlockhash
    \/ BackfillAttempt
    \/ BackfillRefresh
    \/ BackfillWake
    \/ Exit

Spec == Init /\ [][Next]_vars

(***************************************************************************)
(* Pipeline runs on their own: units already spawned for notifications of  *)
(* any transactions of the catalog, each scheduled whenever it can take a  *)
(* step (tokio polls a ready task, and every RPC call returns).            *)
(***************************************************************************)
MaxRuns == 2

InitDriver ==
    /\ sup = [p \in Tracked |-> Waiting("streaming")]
    /\ \E K \in SUBSET LiveKeys :
         /\ Cardinality(K) \in 1..MaxRuns
         /\ live = [k \in LiveKeys |-> IF k \in K THEN SpawnedTask ELSE IdleTask]
    /\ bf = [pc |-> "done", pi |-> Len(program_ids), sigs |-> <<>>, cur |-> 0]
    /\ bft = IdleTask
    /\ callbacks = [v \in Vrfs |-> 0]
    /\ main = "joining"
    /\ ParserIdle

\* a step of the unit spawned for the notification of transaction i
LiveStep(p, i) ==
    \/ LiveRun(p, i)
    \/ LiveAccount(p, i)
    \/ LiveBlockhash(p, i)
    \/ LiveAttempt(p, i)
    \/ LiveRefresh(p, i)
    \/ LiveWake(p, i)

NextDriver == \E k \in LiveKeys : LiveStep(k[1], k[2])

SpecDriver ==
    /\ InitDriver
    /\ [][NextDriver]_vars
    /\ \A k \in LiveKeys : WF_vars(LiveStep(k[1], k[2]))

(***************************************************************************)
(* One call of parse_logs on its own: the batch is any sequence of at most *)
(* MaxLines lines, read in order by the for loop, for a tracked set that   *)
(* is empty, the first configured program or all of them.                  *)
(***************************************************************************)
LINE_P1_RETURN_DATA ==
    <<"P","r","o","g","r","a","m"," ","r","e","t","u","r","n",":"," ",
      "P","1"," ","A","Q","=","=">>

Lines ==
    {LINE_P1_INVOKE, LINE_P2_INVOKE2, LINE_P1_SUCCESS, LINE_P2_SUCCESS,
     LINE_LOG_HI, LINE_DATA_SHORT, LINE_P1_CONSUMED, LINE_P1_RETURN_DATA}

TrackedSets == {{}, {P1}, Tracked}

MaxLines == 5

\* the server does nothing while a call of the parser is watched
ServerIdle ==
    /\ sup = [p \in Tracked |-> Waiting("streaming")]
    /\ live = [k \in LiveKeys |-> IdleTask]
    /\ bf = [pc |-> "done", pi |-> Len(program_ids), sigs |-> <<>>, cur |-> 0]
    /\ bft = IdleTask
    /\ callbacks = [v \in Vrfs |-> 0]
    /\ main = "joining"

InitParse ==
    /\ ServerIdle
    /\ tracked \in TrackedSets
    /\ batch = <<>>
    /\ parse = NoLines
    /\ input = <<>>
    /\ lt = <<>>
    /\ call = <<>>

\* ReadLine with the loop left at the first recorded error
ReadLineStopAtError(log) ==
    /\ Len(batch) < MaxLines
    /\ parse.errors = <<>>
    /\ batch' = Append(batch, log)
    /\ parse' = ParseStep(parse, log, tracked)
    /\ UNCHANGED <<tracked, input, lt, call, sup, live, bf, bft, callbacks, main>>

\* one turn of `for log in logs` (lines 106-179)
ReadLine(log) ==
    /\ Len(batch) < MaxLines
    /\ batch' = Append(batch, log)
    /\ parse' = ParseStep(parse, log, tracked)
    /\ UNCHANGED <<tracked, input, lt, call, sup, live, bf, bft, callbacks, main>>

NextParse == \E log \in Lines : ReadLine(log)

SpecParse == InitParse /\ [][NextParse]_vars

(***************************************************************************)
(* One call of parse_log_line on its own: the line is one of the heads     *)
(* followed by at most MaxPieces pieces of text.                           *)
(***************************************************************************)
Heads == {PREFIX_LOG, PREFIX_DATA, PREFIX_PROGRAM}

Pieces ==
    {<<"P","1">>, <<" ">>, <<"i","n","v","o","k","e">>,
     <<"s","u","c","c","e","s","s">>, <<"a","G","k","=">>, <<"[","1","]">>,
     <<"+","/">>, <<":">>, <<"\n">>}

MaxPieces == 3

RECURSIVE Texts(_)
Texts(n) ==
    IF n = 0 THEN {<<>>}
    ELSE Texts(n - 1) \cup {t \o piece : t \in Texts(n - 1), piece \in Pieces}

InitLine ==
    /\ ServerIdle
    /\ tracked = Tracked
    /\ batch = <<>>
    /\ parse = NoLines
    /\ input \in {head \o text : head \in Heads, text \in Texts(MaxPieces)}
    /\ lt = <<>>
    /\ call = <<>>

\* the call parse_log_line(input) returns
Classify ==
    /\ lt = <<>>
    /\ lt' = <<parse_log_line(input)>>
    /\ UNCHANGED <<tracked, batch, parse, input, call, sup, live, bf, bft, callbacks, main>>

NextLine == Classify

SpecLine == InitLine /\ [][NextLine]_vars

(***************************************************************************)
(* Properties                                                              *)
(***************************************************************************)
\* the run is inside the submission loop (lines 151-199)
Running(task) == task.st \in {"sending", "refreshing", "sleeping"}

Ended(task) == task.st \in {"done", "panicked"}

\* C1: the node never confirms a second callback transaction for a request
C1_OneCallbackPerRequest == \A v \in Vrfs : callbacks[v] <= 1

\* C2: no two pipeline runs of the process (units of the subscriptions and
\* the run of the backfill) are inside the submission loop for one request
C2_NoConcurrentSubmissions ==
    /\ \A k1, k2 \in LiveKeys :
         (k1 # k2 /\ Running(live[k1]) /\ Running(live[k2])) => live[k1].vrf # live[k2].vrf
    /\ \A k \in LiveKeys :
         (Running(live[k]) /\ Running(bft)) => live[k].vrf # bft.vrf

\* C3: a submission answered by a connection failure or an RPC error other
\* than a preflight failure is submitted again while the budget lasts: at
\* the least when it answers the first submission of the run, before the
\* backoff has been asked for any delay
C3_TransientErrorIsRetried ==
    [][\A k \in LiveKeys :
         (/\ live[k].st = "sending"
          /\ live'[k] # live[k]
          /\ live'[k].last \in {"Io", "RpcResponseError"}
          /\ live[k].last = "")
         => Running(live'[k])]_vars

\* C4: BlockhashNotFound and AlreadyProcessed lead, while the budget lasts, to
\* another submission after a delay, with the block reference refreshed or
\* kept: the answer makes the run ask for a new block reference, the answer
\* to that starts a delay unless the backoff grants none, which ends the run
\* with the "Send transaction failed!" error, and the end of the delay is the
\* next submission for the same request; a preflight failure with logs ends
\* the run with its error at once, and a run that has ended submits nothing
\* more
C4_RetryOnStaleNotOnPreflight ==
    [][\A k \in LiveKeys :
         /\ (live[k].st = "sending" /\ live'[k] # live[k]) =>
              /\ live'[k].last \in {"BlockhashNotFound", "AlreadyProcessed"}
                 => /\ live'[k].st = "refreshing"
                    /\ live'[k].hash = live[k].hash
                    /\ live'[k].delay = live[k].delay
                    /\ live'[k].vrf = live[k].vrf
              /\ live'[k].last = "PreflightFailureWithLogs"
                 => /\ live'[k].st = "done"
                    /\ live'[k].out = "Err(Simulation error logs)"
         /\ (live[k].st = "refreshing" /\ live'[k] # live[k])
            => /\ live'[k].vrf = live[k].vrf
               /\ \/ /\ live'[k].st = "sleeping"
                     /\ live'[k].delay \in Durations
                     /\ live'[k].hash \in {live[k].hash} \cup Hashes
                  \/ /\ live'[k].st = "done"
                     /\ live'[k].out = "Err(Send transaction failed!)"
         /\ (live[k].st = "sleeping" /\ live'[k] # live[k])
            => /\ live'[k].st = "sending"
               /\ live'[k].hash = live[k].hash
               /\ live'[k].delay = live[k].delay
               /\ live'[k].vrf = live[k].vrf
         /\ Ended(live[k]) => live'[k] = live[k]]_vars

\* a second submission is in flight with a refreshed block reference, after
\* AlreadyProcessed and a delay, and another run ended on a preflight failure
C4_Witness ==
    \E k1, k2 \in LiveKeys :
      /\ live[k1].st = "sending"
      /\ live[k1].last = "AlreadyProcessed"
      /\ live[k1].hash = 1
      /\ live[k1].delay > 0
      /\ live[k2].out = "Err(Simulation error logs)"

\* C6: no subscription task ever ends
C6_SupervisorNeverEnds == \A p \in Tracked : sup[p].st # "dead"

\* C7: a connection attempt that follows a failed logs_subscribe comes after
\* a backoff delay: a task that waits for the answer of logs_subscribe does
\* not ask for a client in its next step
C7_DelayAfterSubscribeFailure ==
    [][\A p \in Tracked :
         sup[p].st = "subscribing" => sup'[p].st # "connecting"]_vars

\* C8: while a subscription streams, the unit of a notification not yet
\* delivered can be dispatched whatever the earlier units are doing
C8_DispatchNeverWaits ==
    \A k \in LiveKeys :
      (/\ sup[k[1]].st = "streaming"
       /\ k[2] \in Ledger
       /\ live[k].st = "idle")
      => ENABLED Receive(k[1], k[2])

C8_Witness ==
    \E k1, k2 \in LiveKeys :
      /\ k1[1] = k2[1]
      /\ Running(live[k1])
      /\ live[k1].delay > 0
      /\ live[k2].st = "spawned"

\* C9: when the backfill task stops on a failure of the pipeline, no
\* signature and no tracked program is left unprocessed
C9_BackfillPassCompletes ==
    bf.pc = "dead" => (bf.sigs = <<>> /\ bf.pi = Len(program_ids))

\* C10: the pipeline never runs on a transaction that recorded an error,
\* neither in a spawned unit nor in the backfill
C10_FailedTransactionsSkipped ==
    /\ \A k \in LiveKeys :
         Catalog[k[2]].err =>
           \/ live[k].st \in {"idle", "spawned"}
           \/ (live[k].st = "done" /\ live[k].out = "Skipped")
    /\ bf.cur # 0 => ~Catalog[bf.cur].err

C10_Witness ==
    \E k \in LiveKeys :
      /\ Catalog[k[2]].err
      /\ live[k].out = "Skipped"
      /\ bf.pc = "done"


(***************************************************************************)
(* Properties of parse_logs and parse_log_line                             *)
(***************************************************************************)
\* the for loop has just read a line
LineRead == Len(batch') = Len(batch) + 1

\* the invocations left open by a batch whose Invoke and Return lines nest
\* properly and whose other lines all lie inside an invocation
RECURSIVE OpenAfter(_, _, _)
OpenAfter(ls, i, open) ==
    IF i > Len(ls) THEN [ok |-> TRUE, open |-> open]
    ELSE LET t == parse_log_line(ls[i])
         IN  CASE t.type = "Invoke" -> OpenAfter(ls, i + 1, Append(open, t.arg))
               [] t.type = "Return" ->
                      IF open # <<>> /\ open[Len(open)] = t.arg
                      THEN OpenAfter(ls, i + 1, SubSeq(open, 1, Len(open) - 1))
                      ELSE [ok |-> FALSE, open |-> open]
               [] OTHER ->
                      IF open # <<>> THEN OpenAfter(ls, i + 1, open)
                      ELSE [ok |-> FALSE, open |-> open]

WellFormed(ls) ==
    OpenAfter(ls, 1, <<>>).ok /\ OpenAfter(ls, 1, <<>>).open = <<>>

\* C11: after a batch whose Invoke and Return lines are balanced and properly
\* nested (and that logs nothing outside an invocation) the stack is empty
\* and no ProgramIdMismatch and no NoCurrentProgramId error is recorded
C11_WellFormedBatchIsClean ==
    WellFormed(batch) =>
      /\ parse.cpi_stack = <<>>
      /\ \A k \in 1..Len(parse.errors) :
           parse.errors[k].kind \notin {"ProgramIdMismatch", "NoCurrentProgramId"}

\* C12: an event is added only by a line read inside an invocation, it
\* carries the program on top of the stack at that time, and the events
\* recorded before it stay as they are
C12_EventAttributedToStackTop ==
    [][(LineRead /\ parse'.events # parse.events) =>
         /\ parse.cpi_stack # <<>>
         /\ Len(parse'.events) = Len(parse.events) + 1
         /\ SubSeq(parse'.events, 1, Len(parse.events)) = parse.events
         /\ parse'.events[Len(parse'.events)].program_id =
                parse.cpi_stack[Len(parse.cpi_stack)]
         /\ parse'.cpi_stack = parse.cpi_stack]_vars

C12_Witness ==
    /\ Len(batch) = 5
    /\ batch[1] = LINE_P1_INVOKE
    /\ batch[2] = LINE_P2_INVOKE2
    /\ batch[4] = LINE_P2_SUCCESS
    /\ Len(parse.events) = 2
    /\ parse.events[1].program_id = P2
    /\ parse.events[2].program_id = P1

\* C13: a Return line naming Q read while the stack top is P # Q records one
\* ProgramIdMismatch, pops one entry and leaves the events alone, and the
\* loop can read the next line
C13_MismatchedReturnStillPops ==
    /\ [][(/\ LineRead
           /\ parse_log_line(batch'[Len(batch')]).type = "Return"
           /\ parse.cpi_stack # <<>>
           /\ parse.cpi_stack[Len(parse.cpi_stack)] # parse_log_line(batch'[Len(batch')]).arg)
          => /\ Len(parse'.errors) = Len(parse.errors) + 1
             /\ SubSeq(parse'.errors, 1, Len(parse.errors)) = parse.errors
             /\ parse'.errors[Len(parse'.errors)].kind = "ProgramIdMismatch"
             /\ parse'.errors[Len(parse'.errors)].current =
                    <<parse.cpi_stack[Len(parse.cpi_stack)]>>
             /\ parse'.errors[Len(parse'.errors)].expect =
                    parse_log_line(batch'[Len(batch')]).arg
             /\ parse'.cpi_stack = SubSeq(parse.cpi_stack, 1, Len(parse.cpi_stack) - 1)
             /\ parse'.events = parse.events]_vars
    /\ []((/\ Len(batch) \in 1..(MaxLines - 1)
           /\ parse_log_line(batch[Len(batch)]).type = "Return"
           /\ parse.errors # <<>>
           /\ parse.errors[Len(parse.errors)].line = batch[Len(batch)])
          => \A log \in Lines : ENABLED ReadLine(log))

C13_Witness ==
    /\ Len(batch) = 4
    /\ batch[1] = LINE_P1_INVOKE
    /\ batch[2] = LINE_P2_INVOKE2
    /\ batch[3] = LINE_P1_SUCCESS
    /\ batch[4] = LINE_DATA_SHORT
    /\ Len(parse.errors) = 1
    /\ parse.errors[1].kind = "ProgramIdMismatch"
    /\ parse.cpi_stack = <<P1>>
    /\ Len(parse.events) = 1

\* C14: an InProgram line read on an empty stack records NoCurrentProgramId,
\* read while the stack top differs from its id it records ProgramIdMismatch,
\* read while the top is its id it records nothing; the stack stays
C14_InProgramLine ==
    [][(LineRead /\ parse_log_line(batch'[Len(batch')]).type = "InProgram") =>
         /\ parse'.cpi_stack = parse.cpi_stack
         /\ parse'.events = parse.events
         /\ IF parse.cpi_stack = <<>>
            THEN /\ Len(parse'.errors) = Len(parse.errors) + 1
                 /\ parse'.errors[Len(parse'.errors)].kind = "NoCurrentProgramId"
            ELSE IF parse.cpi_stack[Len(parse.cpi_stack)] #
                        parse_log_line(batch'[Len(batch')]).arg
            THEN /\ Len(parse'.errors) = Len(parse.errors) + 1
                 /\ parse'.errors[Len(parse'.errors)].kind = "ProgramIdMismatch"
            ELSE parse'.errors = parse.errors]_vars

\* C15: whatever errors are recorded, the loop reads the next line of the
\* batch, keeps the events and errors it has, and a decodable Data line of a
\* tracked program still yields its event
C15_ErrorsNeverStopTheLoop ==
    /\ []((parse.errors # <<>> /\ Len(batch) < MaxLines) => ENABLED NextParse)
    /\ [][LineRead =>
            /\ Len(parse'.events) >= Len(parse.events)
            /\ SubSeq(parse'.events, 1, Len(parse.events)) = parse.events
            /\ Len(parse'.errors) >= Len(parse.errors)
            /\ SubSeq(parse'.errors, 1, Len(parse.errors)) = parse.errors
            /\ (/\ batch'[Len(batch')] = LINE_DATA_SHORT
                /\ parse.cpi_stack # <<>>
                /\ parse.cpi_stack[Len(parse.cpi_stack)] \in tracked)
               => parse'.events =
                      Append(parse.events,
                             [program_id |-> parse.cpi_stack[Len(parse.cpi_stack)],
                              data |-> <<104, 105>>])]_vars

C15_Witness ==
    /\ Len(batch) = 4
    /\ batch[1] = LINE_P1_INVOKE
    /\ batch[2] = LINE_LOG_HI
    /\ batch[3] = LINE_P1_RETURN_DATA
    /\ batch[4] = LINE_DATA_SHORT
    /\ Len(parse.errors) = 2
    /\ parse.events = <<[program_id |-> P1, data |-> <<104, 105>>]>>

\* C16: a Data line read while the program on top of the stack is not
\* tracked changes nothing, decodable or not; the batch "Program P1 invoke
\* [1]", "Program log: hi", "Program P1 success" with nothing tracked yields
\* no event and no error
C16_UntrackedProgramIsSkipped ==
    /\ []((/\ tracked = {}
           /\ batch = <<LINE_P1_INVOKE, LINE_LOG_HI, LINE_P1_SUCCESS>>)
          => parse = [events |-> <<>>, errors |-> <<>>, cpi_stack |-> <<>>])
    /\ [][(/\ LineRead
           /\ batch'[Len(batch')] \in {LINE_LOG_HI, LINE_DATA_SHORT}
           /\ parse.cpi_stack # <<>>
           /\ parse.cpi_stack[Len(parse.cpi_stack)] \notin tracked)
          => parse' = parse]_vars

C16_Witness ==
    /\ tracked = {P1}
    /\ batch = <<LINE_P1_INVOKE, LINE_P2_INVOKE2, LINE_LOG_HI, LINE_DATA_SHORT>>
    /\ parse = [events |-> <<>>, errors |-> <<>>, cpi_stack |-> <<P1, P2>>]

\* every character of the text is a letter, a digit, '+', '/' or '='
Base64Text(text) ==
    \A i \in 1..Len(text) : text[i] \in Upper \cup Lower \cup Digit \cup {"+", "/", "="}

\* C17: a line with one of the two output prefixes is Data when the rest is
\* made of base64 characters only and Trivia otherwise, whatever the rest
\* contains
C17_OutputLineIsDataOrTrivia ==
    \A prefix \in {PREFIX_LOG, PREFIX_DATA} :
      (/\ lt # <<>>
       /\ Len(input) >= Len(prefix)
       /\ SubSeq(input, 1, Len(prefix)) = prefix)
      => IF Base64Text(SubSeq(input, Len(prefix) + 1, Len(input)))
         THEN lt[1] = [type |-> "Data", arg |-> SubSeq(input, Len(prefix) + 1, Len(input))]
         ELSE lt[1].type = "Trivia"

C17_Witness ==
    /\ input = PREFIX_LOG \o <<"P","1">> \o <<" ">> \o <<"i","n","v","o","k","e">>
    /\ lt # <<>>
    /\ lt[1].type = "Trivia"

(***************************************************************************)
(* Properties of the pipeline before the submission loop                   *)
(***************************************************************************)
\* what parse_logs makes of the logs of every transaction, worked out once
ParsedTx == [i \in TxIds |-> parse_logs(Catalog[i].logs, Tracked)] @@ <<>>

\* an event of the transaction begins with the discriminator of the request
HasRequestEvent(i) ==
    \E n \in 1..Len(ParsedTx[i].events) :
      /\ Len(ParsedTx[i].events[n].data) >= 8
      /\ SubSeq(ParsedTx[i].events[n].data, 1, 8) = EVENT_DISCRIMINATOR

\* C18: a run on logs that record a parse error ends with that error
\* whatever the node would answer: it never reaches the account nor the
\* submission loop, and it confirms no callback
C18_ParseErrorsAbort ==
    \A k \in LiveKeys :
      (~Catalog[k[2]].err /\ ParsedTx[k[2]].errors # <<>>) =>
        \/ live[k].st \in {"idle", "spawned"}
        \/ /\ live[k].st = "done"
           /\ live[k].out = "Err(parse errors)"
           /\ live[k].vrf = <<>>
           /\ live[k].last = ""

C18_Witness ==
    \E k \in LiveKeys :
      /\ HasRequestEvent(k[2])
      /\ ParsedTx[k[2]].errors # <<>>
      /\ live[k].out = "Err(parse errors)"

\* C19: a run on logs that parse without errors and hold no event beginning
\* with the discriminator of the request, whatever the length of the events,
\* ends with Ok(None)
C19_NoRequestIsNothingToDo ==
    \A k \in LiveKeys :
      (/\ ~Catalog[k[2]].err
       /\ ParsedTx[k[2]].errors = <<>>
       /\ ~HasRequestEvent(k[2])
       /\ live[k].st \notin {"idle", "spawned"})
      => (live[k].st = "done" /\ live[k].out = "Ok(None)")

\* the run reaches get_account_data for the request of transaction k[2]
ReachesAccount(k) ==
    /\ ~Catalog[k[2]].err
    /\ ParsedTx[k[2]].errors = <<>>
    /\ FirstRequest(ParsedTx[k[2]].events, 1).kind = "Some"
    /\ FirstRequest(ParsedTx[k[2]].events, 1).event.program_id = k[1]
    /\ Len(FirstRequest(ParsedTx[k[2]].events, 1).event.data) >= 8 + 32

\* the selected event was emitted by a program other than the subscription's
EventOfOtherProgram(k) ==
    /\ ~Catalog[k[2]].err
    /\ ParsedTx[k[2]].errors = <<>>
    /\ FirstRequest(ParsedTx[k[2]].events, 1).kind = "Some"
    /\ FirstRequest(ParsedTx[k[2]].events, 1).event.program_id # k[1]

\* the account's first eight bytes are not the discriminator, or are not there
WrongOrMissingDiscriminator(a) == a.len < 8 \/ a.head # ACCOUNT_DISCRIMINATOR

\* a whole record of the right type whose instruction data lack the sentinel
SentinelAbsent(a) ==
    /\ a.len >= VRF_ACCOUNT_DATA_SIZE + 8
    /\ a.head = ACCOUNT_DISCRIMINATOR
    /\ a.callback.ix_data_len <= IX_DATA_CAP
    /\ \A o \in 1..(Len(a.callback.ix_data) - 31) :
         SubSeq(a.callback.ix_data, o, o + 31) # VRF_RESULT_DISCRIMINATOR

IntegrityEnd(task) ==
    /\ task.st = "done"
    /\ task.out \in {"Err(invalid discriminator)", "Err(program_id not match)",
                     "Err(cannot found VrfResult in ix_data)"}
    /\ task.last = ""

\* C20: a run that meets a wrong or missing account discriminator, an event
\* of another program than the subscription's, or instruction data without
\* the sentinel ends with an error, having submitted nothing, and stays ended
C20_IntegrityErrorsAreTerminal ==
    [][\A k \in LiveKeys :
         /\ (live[k].st = "spawned" /\ live'[k] # live[k] /\ EventOfOtherProgram(k))
            => IntegrityEnd(live'[k])
         /\ \A r \in AccountResponses :
              (/\ live[k].st = "account"
               /\ ReachesAccount(k)
               /\ r.ok
               /\ WrongOrMissingDiscriminator(r.account) \/ SentinelAbsent(r.account)
               /\ live'[k] = Fulfil(live[k], r))
              => IntegrityEnd(live'[k])
         /\ IntegrityEnd(live[k]) => live'[k] = live[k]]_vars


(***************************************************************************)
(* The callback builder of process() on its own (lines 105-139): the       *)
(* subscription's program id, the callback template of the fetched record  *)
(* and the 32 result bytes are drawn, and one step builds the instruction. *)
(* A template's ix_data holds the first ix_data_len bytes of its buffer.   *)
(***************************************************************************)
MaxPrefix == 9

MaxGap == 2

\* n bytes a client serialised around the placeholder
Filler(n) == [k \in 1..n |-> 10 + k]

IxDatas ==
    {Filler(n) : n \in 0..MaxPrefix} \cup
    {Filler(n) \o VRF_RESULT_DISCRIMINATOR \o Filler(g) \o second :
        n \in 0..MaxPrefix, g \in 0..MaxGap,
        second \in {<<>>, VRF_RESULT_DISCRIMINATOR,
                    SubSeq(VRF_RESULT_DISCRIMINATOR, 1, RESULT_BYTE_LEN - 1)}}

RANDOM_A == [k \in 1..RESULT_BYTE_LEN |-> 200]

RANDOM_B == [k \in 1..RESULT_BYTE_LEN |-> 100 + k]

Randoms == {RANDOM_A, RANDOM_B}

\* CallbackPacked as request_randomness() leaves it, for the owner program
\* `owner` of the record type
Template(owner, ix_data) ==
    [program_id |-> owner,
     accounts |-> <<[pubkey |-> <<"A","1">>, is_signer |-> FALSE, is_writable |-> TRUE]>>,
     accounts_len |-> 1,
     ix_data |-> ix_data,
     ix_data_len |-> Len(ix_data)]

\* ix_data[offset..offset + RESULT_BYTE_LEN].copy_from_slice(&random) (line 123)
CopyFromSlice(ix_data, offset, random) ==
    [i \in 1..Len(ix_data) |->
        IF offset < i /\ i <= offset + RESULT_BYTE_LEN
        THEN random[i - offset] ELSE ix_data[i]]

\* the block `let instruction = { .. }` of process() (lines 105-139)
callback_builder(program_id, cb, random) ==
    LET ix_data == cb.ix_data
        offset == FindSentinel(ix_data)
    IN  IF offset = -1
        THEN [ok |-> FALSE, err |-> "cannot found VrfResult in ix_data"]
        ELSE [ok |-> TRUE,
              warned |-> offset # DISCRIMINATOR_LEN,
              instruction |->
                  [program_id |-> program_id,
                   data |-> CopyFromSlice(ix_data, offset, random),
                   accounts |-> SubSeq(cb.accounts, 1, cb.accounts_len)]]

InitBuilder ==
    /\ ServerIdle
    /\ tracked = Tracked
    /\ batch = <<>>
    /\ parse = NoLines
    /\ input = <<>>
    /\ lt = <<>>
    /\ call \in {[fn |-> "callback_builder", program_id |-> p, cb |-> Template(owner, d),
                  random |-> r, out |-> <<>>] :
                    p \in Tracked, owner \in Tracked, d \in IxDatas, r \in Randoms}

\* the builder runs to its end
Build ==
    /\ call.out = <<>>
    /\ call' = [call EXCEPT !.out = <<callback_builder(call.program_id, call.cb, call.random)>>]
    /\ UNCHANGED <<tracked, batch, parse, input, lt, sup, live, bf, bft, callbacks, main>>

NextBuilder == Build

SpecBuilder == InitBuilder /\ [][NextBuilder]_vars

(***************************************************************************)
(* Properties of the callback builder                                      *)
(***************************************************************************)
\* the sentinel lies at offset o of the text d
SentinelAt(d, o) ==
    /\ o + RESULT_BYTE_LEN <= Len(d)
    /\ \A i \in 1..RESULT_BYTE_LEN : d[o + i] = VRF_RESULT_DISCRIMINATOR[i]

\* C21: when the sentinel occurs in the template's instruction data, the
\* builder overwrites the first occurrence, and only that one, with the 32
\* result bytes: the length and every other byte stay as they were, and a
\* warning is logged exactly when that occurrence is not at offset 8.
C21_FirstSentinelOverwritten ==
    (call # <<>> /\ call.out # <<>>) =>
        \A o \in 0..Len(call.cb.ix_data) :
            (/\ SentinelAt(call.cb.ix_data, o)
             /\ \A before \in 0..(o - 1) : ~SentinelAt(call.cb.ix_data, before))
            => /\ call.out[1].ok
               /\ Len(call.out[1].instruction.data) = Len(call.cb.ix_data)
               /\ \A i \in 1..Len(call.cb.ix_data) :
                      call.out[1].instruction.data[i] =
                          IF o < i /\ i <= o + RESULT_BYTE_LEN
                          THEN call.random[i - o] ELSE call.cb.ix_data[i]
               /\ call.out[1].warned <=> (o # 8)

\* a template with two sentinels, the first not at offset 8, was built
C21_Witness ==
    /\ call # <<>>
    /\ call.out # <<>>
    /\ SentinelAt(call.cb.ix_data, 3)
    /\ SentinelAt(call.cb.ix_data, 3 + RESULT_BYTE_LEN + 1)
    /\ call.out[1].ok
    /\ call.out[1].warned
    /\ SentinelAt(call.out[1].instruction.data, 3 + RESULT_BYTE_LEN + 1)

\* C22: the instruction the builder produces targets the program id stored
\* in the record's callback template, also when that program id is not the
\* subscription's.
C22_TargetsTemplateProgram ==
    (call # <<>> /\ call.out # <<>> /\ call.out[1].ok) =>
        call.out[1].instruction.program_id = call.cb.program_id


(***************************************************************************)
(* VrfResult::random() of the client library on its own (lib.rs, lines     *)
(* 137-167), for Int = i8.  The i128 read from the first 16 bytes is kept  *)
(* as its big-endian bytes; what the code computes from it, a remainder by *)
(* a divisor of at most eight bits, is computed byte by byte.  `checked`   *)
(* tells whether the build traps integer overflow (overflow-checks).       *)
(***************************************************************************)
INT_MIN == -128

INT_MAX == 127

\* i128::AsPrimitive<i8>: the low eight bits, two's complement
as_Int(x) == ((x - INT_MIN) % (INT_MAX - INT_MIN + 1)) + INT_MIN

Abs(x) == IF x < 0 THEN -x ELSE x

\* the unsigned big-endian number of bytes[i..], modulo m, from acc
RECURSIVE ModFrom(_, _, _, _)
ModFrom(bytes, i, acc, m) ==
    IF i > Len(bytes) THEN acc
    ELSE ModFrom(bytes, i + 1, (acc * 256 + bytes[i]) % m, m)

I128_BYTES == 16

\* i128::from_be_bytes(bytes) is negative
IsNegative(bytes) == bytes[1] >= 128

\* i128::from_be_bytes(bytes) is i128::MIN
IsI128Min(bytes) == bytes[1] = 128 /\ \A i \in 2..Len(bytes) : bytes[i] = 0

\* |i128::from_be_bytes(bytes)| modulo m
AbsMod(bytes, m) ==
    IF IsNegative(bytes)
    THEN (ModFrom(<<1>> \o [k \in 1..I128_BYTES |-> 0], 1, 0, m)
             + m - ModFrom(bytes, 1, 0, m)) % m
    ELSE ModFrom(bytes, 1, 0, m)

\* rand % bound of i128: the remainder has the sign of rand
Rem(bytes, bound) ==
    IF IsNegative(bytes) THEN -AbsMod(bytes, Abs(bound)) ELSE AbsMod(bytes, Abs(bound))

VrfNotFulfilled == [kind |-> "Err", value |-> 7777]

Panic == [kind |-> "Panic", value |-> 0]

\* random() that tests the result against the zero bytes only
random_ZeroOnly(result, lo, hi, checked) ==
    LET rand == SubSeq(result, 1, I128_BYTES)
        width == hi - lo
        bound == as_Int(width)
    IN  IF result = [k \in 1..RESULT_BYTE_LEN |-> 0]
        THEN VrfNotFulfilled
        ELSE IF checked /\ (width < INT_MIN \/ width > INT_MAX) THEN Panic
        ELSE IF bound = 0 THEN Panic
        ELSE IF bound = -1 /\ IsI128Min(rand) THEN Panic
        ELSE [kind |-> "Ok", value |-> as_Int(Rem(rand, bound) + lo)]

\* VrfResult::random(self, lo..=hi) (lines 137-167)
random(result, lo, hi, checked) ==
    LET rand == SubSeq(result, 1, I128_BYTES)
        width == hi - lo
        bound == as_Int(width)
    IN  IF \/ result = [k \in 1..RESULT_BYTE_LEN |-> 0]
           \/ result = VRF_RESULT_DISCRIMINATOR
        THEN VrfNotFulfilled
        ELSE IF checked /\ (width < INT_MIN \/ width > INT_MAX) THEN Panic
        ELSE IF bound = 0 THEN Panic
        ELSE IF bound = -1 /\ IsI128Min(rand) THEN Panic
        ELSE [kind |-> "Ok", value |-> as_Int(Rem(rand, bound) + lo)]

MaxLow == 7

\* 32 result bytes: the first, the next fourteen, the sixteenth, and ones
ResultBytes(top, mid, low) ==
    <<top>> \o [k \in 1..(I128_BYTES - 2) |-> mid] \o <<low>>
        \o [k \in 1..(RESULT_BYTE_LEN - I128_BYTES) |-> 1]

\* the results a record may hold: never fulfilled, the default, fulfilled
StoredResults ==
    {[k \in 1..RESULT_BYTE_LEN |-> 0], VRF_RESULT_DISCRIMINATOR} \cup
    {ResultBytes(h[1], h[2], low) :
        h \in {<<0, 0>>, <<1, 2>>, <<127, 255>>, <<128, 0>>, <<255, 255>>},
        low \in 0..MaxLow}

RangeEnds == {INT_MIN, -100, -1, 0, 1, 100, INT_MAX}

InitRandom ==
    /\ ServerIdle
    /\ tracked = Tracked
    /\ batch = <<>>
    /\ parse = NoLines
    /\ input = <<>>
    /\ lt = <<>>
    /\ call \in {[fn |-> "random", result |-> r, lo |-> lo, hi |-> hi,
                  checked |-> c, out |-> <<>>] :
                    r \in StoredResults, lo \in RangeEnds, hi \in RangeEnds,
                    c \in BOOLEAN}

\* the call of random() returns, or panics
Random ==
    /\ call.out = <<>>
    /\ call' = [call EXCEPT !.out = <<random(call.result, call.lo, call.hi, call.checked)>>]
    /\ UNCHANGED <<tracked, batch, parse, input, lt, sup, live, bf, bft, callbacks, main>>

NextRandom == Random

SpecRandom == InitRandom /\ [][NextRandom]_vars

(***************************************************************************)
(* Properties of VrfResult::random()                                       *)
(***************************************************************************)
\* C23: for every range, random() returns the VrfNotFulfilled error, never a
\* number, when the 32 result bytes are all zero or equal the sentinel.
C23_UnfulfilledIsAnError ==
    (/\ call # <<>>
     /\ call.out # <<>>
     /\ \/ \A i \in 1..RESULT_BYTE_LEN : call.result[i] = 0
        \/ \A i \in 1..RESULT_BYTE_LEN : call.result[i] = VRF_RESULT_DISCRIMINATOR[i])
    => call.out[1].kind = "Err" /\ call.out[1].value = 7777

\* random() was called on the default result for a range that is not empty
C23_Witness ==
    /\ call # <<>>
    /\ call.out # <<>>
    /\ call.result = VRF_RESULT_DISCRIMINATOR
    /\ call.lo = 0
    /\ call.hi = 100
    /\ call.out[1].kind = "Err"

\* C24: for every fulfilled result and every range lo..=hi with lo <= hi,
\* random() returns a value v with lo <= v <= hi, whatever the sign of the
\* i128 read from the first 16 bytes.
C24_ValueWithinRange ==
    (/\ call # <<>>
     /\ call.out # <<>>
     /\ \E i \in 1..RESULT_BYTE_LEN : call.result[i] # 0
     /\ call.result # VRF_RESULT_DISCRIMINATOR
     /\ call.lo <= call.hi)
    => /\ call.out[1].kind = "Ok"
       /\ call.lo <= call.out[1].value
       /\ call.out[1].value <= call.hi


(***************************************************************************)
(* Properties of the submission loop                                       *)
(***************************************************************************)
\* C26: every transaction a unit submits, on the first attempt and on every
\* retry, is signed over the block reference it carries: while a
\* send_and_confirm_transaction is awaited, the signature of trans was made
\* over its current recent_blockhash, also after a refresh.
C26_SignedOverCarriedBlockReference ==
    \A k \in LiveKeys :
        live[k].st = "sending" => live[k].signed = live[k].hash


(***************************************************************************)
(* One run of process() up to the submission loop on its own: the          *)
(* subscription's program, the log messages of the notification and the    *)
(* answers the node will give are drawn, and the run is taken from one     *)
(* await to the next.  The                                                 *)
(* batches are those of the ledger and four more that hold two request     *)
(* events, or a request event after a line that does not decode.           *)
(***************************************************************************)
\* two top-level instructions: P2 requests for VRF_2, then P1 for VRF_1
LOGS_P2_THEN_P1 ==
    <<LINE_P2_INVOKE, LINE_DATA_REQ2, LINE_P2_SUCCESS,
      LINE_P1_INVOKE, LINE_DATA_REQ1, LINE_P1_SUCCESS>>

\* one instruction of P1 that requests for VRF_1 and then for VRF_2
LOGS_P1_TWICE ==
    <<LINE_P1_INVOKE, LINE_DATA_REQ1, LINE_DATA_REQ2, LINE_P1_SUCCESS>>

\* P1 calls P2, which requests for VRF_2, and then requests for VRF_1 itself
LOGS_NESTED_THEN_OWN ==
    <<LINE_P1_INVOKE, LINE_P2_INVOKE2, LINE_DATA_REQ2, LINE_P2_SUCCESS,
      LINE_DATA_REQ1, LINE_P1_SUCCESS>>

\* P2 logs "hi" and then requests for VRF_2
LOGS_HI_IN_P2 ==
    <<LINE_P2_INVOKE, LINE_LOG_SPIN, LINE_LOG_HI, LINE_DATA_REQ2, LINE_P2_SUCCESS>>

Batches ==
    {Catalog[i].logs : i \in TxIds} \cup
    {LOGS_P2_THEN_P1, LOGS_P1_TWICE, LOGS_NESTED_THEN_OWN, LOGS_HI_IN_P2}

InitProcess ==
    /\ ServerIdle
    /\ tracked = Tracked
    /\ batch = <<>>
    /\ parse = NoLines
    /\ input = <<>>
    /\ lt = <<>>
    /\ call \in {[fn |-> "process", program_id |-> p, logs |-> b,
                  account_response |-> a, latest_hash_ok |-> h, out |-> <<>>] :
                    p \in Tracked, b \in Batches, a \in AccountResponses,
                    h \in BOOLEAN}

\* process() is called and runs to get_account_data, or to its end
Process ==
    /\ call.out = <<>>
    /\ call' = [call EXCEPT !.out = <<process(call.program_id, call.logs)>>]
    /\ UNCHANGED <<tracked, batch, parse, input, lt, sup, live, bf, bft, callbacks, main>>

\* get_account_data answers: the run goes on to get_latest_blockhash, or ends
ProcessAccount ==
    /\ call.out # <<>>
    /\ call.out[1].st = "account"
    /\ call' = [call EXCEPT !.out = <<Fulfil(call.out[1], call.account_response)>>]
    /\ UNCHANGED <<tracked, batch, parse, input, lt, sup, live, bf, bft, callbacks, main>>

\* get_latest_blockhash answers: the run goes on to its first submission, or
\* ends
ProcessBlockhash ==
    /\ call.out # <<>>
    /\ call.out[1].st = "blockhash"
    /\ call' = [call EXCEPT !.out = <<Sign(call.out[1], call.latest_hash_ok)>>]
    /\ UNCHANGED <<tracked, batch, parse, input, lt, sup, live, bf, bft, callbacks, main>>

NextProcess == Process \/ ProcessAccount \/ ProcessBlockhash

SpecProcess == InitProcess /\ [][NextProcess]_vars

(***************************************************************************)
(* Properties of the event selection of process()                          *)
(***************************************************************************)
\* the event begins with the discriminator of the request event
IsRequest(event) ==
    /\ Len(event.data) >= DISCRIMINATOR_LEN
    /\ \A i \in 1..DISCRIMINATOR_LEN : event.data[i] = EVENT_DISCRIMINATOR[i]

\* the request events of the watched run's batch, over all tracked programs
CallRequests == SelectSeq(parse_logs(call.logs, Tracked).events, IsRequest)

\* the record a request event asks randomness for
RequestedVrf(event) ==
    SubSeq(event.data, DISCRIMINATOR_LEN + 1, DISCRIMINATOR_LEN + PUBKEY_LEN)

\* C27: a run considers only the first request event of its batch, taken
\* over the events of all tracked programs: a run that goes on to fulfil
\* fulfils the request of the first one, never of a later one, and when the
\* first one belongs to another tracked program a run that got past the
\* parse-error check ends with the program-id-mismatch error, also when a
\* later request event belongs to the subscription's program.
C27_OnlyFirstRequestEvent ==
    (call # <<>> /\ call.out # <<>> /\ CallRequests # <<>>) =>
        /\ call.out[1].vrf \in {<<>>, RequestedVrf(CallRequests[1])}
        /\ (/\ parse_logs(call.logs, Tracked).errors = <<>>
            /\ CallRequests[1].program_id # call.program_id)
           => /\ call.out[1].st = "done"
              /\ call.out[1].out = "Err(program_id not match)"

\* a run for P1 ended with the mismatch on a batch whose first request event
\* is P2's and whose second is P1's own
C27_Witness ==
    /\ call # <<>>
    /\ call.out # <<>>
    /\ Len(CallRequests) = 2
    /\ CallRequests[1].program_id = P2
    /\ CallRequests[2].program_id = P1
    /\ call.program_id = P1
    /\ call.out[1].out = "Err(program_id not match)"


\* line i of the watched run's batch is read inside a tracked program
InTrackedProgram(i) ==
    LET before == ParseFrom(NoLines, SubSeq(call.logs, 1, i - 1), 1, Tracked)
    IN  /\ before.cpi_stack # <<>>
        /\ before.cpi_stack[Len(before.cpi_stack)] \in Tracked

\* C28: the line "Program log: hi", logged inside a tracked program, is a
\* Data line whose text is not valid base64: parse_logs records a decode
\* error for it, and the run ends with the parse errors, so that a request
\* event of the same batch is not fulfilled.
C28_LogLineOfBase64LettersAborts ==
    (call # <<>> /\ call.out # <<>>) =>
        \A i \in 1..Len(call.logs) :
            (call.logs[i] = LINE_LOG_HI /\ InTrackedProgram(i))
            => /\ parse_log_line(call.logs[i]).type = "Data"
               /\ \E n \in 1..Len(parse_logs(call.logs, Tracked).errors) :
                      /\ parse_logs(call.logs, Tracked).errors[n].kind = "Base64Decode"
                      /\ parse_logs(call.logs, Tracked).errors[n].line = LINE_LOG_HI
               /\ call.out[1].st = "done"
               /\ call.out[1].out = "Err(parse errors)"
               /\ call.out[1].vrf = <<>>

\* a run ended on "Program log: hi" though the batch holds a request event of
\* the subscription's program and the node would have answered every call
C28_Witness ==
    /\ call # <<>>
    /\ call.out # <<>>
    /\ \E i \in 1..Len(call.logs) : call.logs[i] = LINE_LOG_HI /\ InTrackedProgram(i)
    /\ CallRequests # <<>>
    /\ CallRequests[1].program_id = call.program_id
    /\ call.account_response.ok
    /\ call.account_response.account = ACCOUNT_GOOD
    /\ call.latest_hash_ok
    /\ call.out[1].out = "Err(parse errors)"


(***************************************************************************)
(* Properties of the Return lines of parse_logs                            *)
(***************************************************************************)
\* ls[i..] holds Invoke and Return lines only, and every Return line either
\* names the innermost open invocation or comes when none is open
RECURSIVE ReturnsMatchOrSurplus(_, _, _)
ReturnsMatchOrSurplus(ls, i, open) ==
    IF i > Len(ls) THEN TRUE
    ELSE LET t == parse_log_line(ls[i])
         IN  CASE t.type = "Invoke" -> ReturnsMatchOrSurplus(ls, i + 1, Append(open, t.arg))
               [] t.type = "Return" ->
                      IF open = <<>> THEN ReturnsMatchOrSurplus(ls, i + 1, open)
                      ELSE /\ open[Len(open)] = t.arg
                           /\ ReturnsMatchOrSurplus(ls, i + 1, SubSeq(open, 1, Len(open) - 1))
               [] OTHER -> FALSE

\* the Return lines of ls that come when no invocation is open
RECURSIVE SurplusReturns(_, _, _)
SurplusReturns(ls, i, depth) ==
    IF i > Len(ls) THEN 0
    ELSE LET t == parse_log_line(ls[i])
         IN  CASE t.type = "Invoke" -> SurplusReturns(ls, i + 1, depth + 1)
               [] t.type = "Return" ->
                      IF depth = 0 THEN 1 + SurplusReturns(ls, i + 1, 0)
                      ELSE SurplusReturns(ls, i + 1, depth - 1)
               [] OTHER -> SurplusReturns(ls, i + 1, depth)

\* C29: a Return line read while the stack is empty leaves the stack empty,
\* records no error and adds no event; so a trace whose Return lines either
\* match or are surplus ones, read when nothing is open, parses without any
\* parse error.
C29_ReturnOnEmptyStackIsIgnored ==
    /\ [][(/\ LineRead
           /\ parse_log_line(batch'[Len(batch')]).type = "Return"
           /\ parse.cpi_stack = <<>>)
          => /\ parse'.cpi_stack = <<>>
             /\ parse'.errors = parse.errors
             /\ parse'.events = parse.events]_vars
    /\ [](ReturnsMatchOrSurplus(batch, 1, <<>>) => parse.errors = <<>>)

\* an invocation of P1 closed, then two more Return lines, and no error
C29_Witness ==
    /\ Len(batch) = 4
    /\ batch[1] = LINE_P1_INVOKE
    /\ batch[2] = LINE_P1_SUCCESS
    /\ batch[3] = LINE_P1_SUCCESS
    /\ batch[4] = LINE_P2_SUCCESS
    /\ SurplusReturns(batch, 1, 0) = 2
    /\ parse.cpi_stack = <<>>
    /\ parse.errors = <<>>

=============================================================================
